---------------------------- MODULE Spec2Model ----------------------------
(* A model of the timestamp web service: the in-memory store (one          *)
(* atomic.Value holding a time.Time), the HTTP handlers behind the         *)
(* ServeMux, the bootstrap Client and the life cycle of main.              *)
(*                                                                         *)
(* int64 and uint64 values are carried at full width as four 16-bit limbs, *)
(* least significant first, so that the wrap-around of time.Unix and the   *)
(* range check of strconv.ParseInt are computed, not assumed.  Texts       *)
(* (request and response bodies) are sequences of strings whose            *)
(* concatenation is the text; numbers are written one character per        *)
(* element.                                                                *)
EXTENDS Integers, Sequences, FiniteSets, TLC

(***************************************************************************)
(* 64-bit integers                                                         *)
(***************************************************************************)
Base == 2^16

FromNat(n) == <<n % Base, n \div Base, 0, 0>>

Zero64 == FromNat(0)

One64 == FromNat(1)

\* a + b modulo 2^64 (Go's integer addition wraps).
Add64(a, b) ==
    LET s1 == a[1] + b[1]
        s2 == a[2] + b[2] + s1 \div Base
        s3 == a[3] + b[3] + s2 \div Base
        s4 == a[4] + b[4] + s3 \div Base
    IN  <<s1 % Base, s2 % Base, s3 % Base, s4 % Base>>

Not64(a) == <<Base - 1 - a[1], Base - 1 - a[2], Base - 1 - a[3], Base - 1 - a[4]>>

\* -a in two's complement.
Neg64(a) == Add64(Not64(a), One64)

\* The sign bit of an int64.
IsNeg64(a) == a[4] >= Base \div 2

\* a * m + d for a small multiplier m and addend d: the low 64 bits, and the
\* part that does not fit in a uint64.
MulAddWide(a, m, d) ==
    LET p1 == a[1] * m + d
        p2 == a[2] * m + p1 \div Base
        p3 == a[3] * m + p2 \div Base
        p4 == a[4] * m + p3 \div Base
    IN  [low |-> <<p1 % Base, p2 % Base, p3 % Base, p4 % Base>>,
         high |-> p4 \div Base]

MulAdd64(a, m, d) == MulAddWide(a, m, d).low

MulAddOverflows(a, m, d) == MulAddWide(a, m, d).high # 0

\* a / m and a % m on a uint64, for a small divisor m.
DivMod64(a, m) ==
    LET r4 == a[4] % m
        n3 == r4 * Base + a[3]
        n2 == (n3 % m) * Base + a[2]
        n1 == (n2 % m) * Base + a[1]
    IN  [quo |-> <<n1 \div m, n2 \div m, n3 \div m, a[4] \div m>>, rem |-> n1 % m]

Div64(a, m) == DivMod64(a, m).quo

Mod64(a, m) == DivMod64(a, m).rem

\* a < b as uint64.
LessU64(a, b) ==
    IF a[4] # b[4] THEN a[4] < b[4]
    ELSE IF a[3] # b[3] THEN a[3] < b[3]
    ELSE IF a[2] # b[2] THEN a[2] < b[2]
    ELSE a[1] < b[1]

\* 1 << k as a uint64.
Bit64(k) ==
    LET at(i) == IF i = (k \div 16) + 1 THEN 2^(k % 16) ELSE 0
    IN  <<at(1), at(2), at(3), at(4)>>

MaxUint64 == Not64(Zero64)

(***************************************************************************)
(* strconv                                                                 *)
(***************************************************************************)
DigitChars == <<"0", "1", "2", "3", "4", "5", "6", "7", "8", "9">>

IsDigit(c) == \E k \in 1..10 : DigitChars[k] = c

DigitVal(c) == (CHOOSE k \in 1..10 : DigitChars[k] = c) - 1

\* The size in bits of an int on the build's platform (strconv.IntSize).
IntSize == 64

\* The digits of u, most significant first (none for 0).  The quotient is
\* bound to q as a value before the recursion, so that each level computes
\* it once.
RECURSIVE FormatBits(_)
FormatBits(u) ==
    IF u = Zero64 THEN <<>>
    ELSE CHOOSE ds \in {Append(FormatBits(dm.quo), DigitChars[dm.rem + 1]) :
                        dm \in {DivMod64(u, 10)}} : TRUE

\* strconv.FormatUint(u, 10).
FormatUint(u) == IF u = Zero64 THEN <<"0">> ELSE FormatBits(u)

\* strconv.FormatInt(v, 10), which is also what fmt prints for an int64.
FormatInt(v) ==
    IF IsNeg64(v) THEN <<"-">> \o FormatUint(Neg64(v)) ELSE FormatUint(v)

\* strconv.ParseUint(s, 10, bitSize) from character i on, n accumulated:
\* n*10 must fit in a uint64, and n*10 + digit must neither wrap nor exceed
\* maxVal.  The sum is bound to n1 as a value before the recursion.
RECURSIVE ParseUintFrom(_, _, _, _)
ParseUintFrom(s, i, n, maxVal) ==
    IF i > Len(s) THEN [val |-> n, err |-> "nil"]
    ELSE IF ~IsDigit(s[i]) THEN [val |-> Zero64, err |-> "syntax"]
    ELSE IF MulAddOverflows(n, 10, 0) THEN [val |-> maxVal, err |-> "range"]
    ELSE CHOOSE res \in
             {IF LessU64(n1, MulAdd64(n, 10, 0)) \/ LessU64(maxVal, n1)
              THEN [val |-> maxVal, err |-> "range"]
              ELSE ParseUintFrom(s, i + 1, n1, maxVal) :
                  n1 \in {Add64(MulAdd64(n, 10, 0), FromNat(DigitVal(s[i])))}} : TRUE

ParseUint(s, bitSize) ==
    IF s = <<>> THEN [val |-> Zero64, err |-> "syntax"]
    ELSE ParseUintFrom(s, 1, Zero64,
                       IF bitSize = 64 THEN MaxUint64
                       ELSE Add64(Bit64(bitSize), MaxUint64))

\* strconv.ParseInt(s, 10, bitSize) with bitSize already resolved.
ParseInt(s, bitSize) ==
    IF s = <<>> THEN [val |-> Zero64, err |-> "syntax"]
    ELSE LET neg    == s[1] = "-"
             rest   == IF s[1] = "+" \/ s[1] = "-" THEN Tail(s) ELSE s
             un     == ParseUint(rest, bitSize)
             cutoff == Bit64(bitSize - 1)
         IN  IF un.err = "syntax" THEN [val |-> Zero64, err |-> "syntax"]
             ELSE IF ~neg /\ ~LessU64(un.val, cutoff)
                  THEN [val |-> Add64(cutoff, MaxUint64), err |-> "range"]
             ELSE IF neg /\ LessU64(cutoff, un.val)
                  THEN [val |-> Neg64(cutoff), err |-> "range"]
             ELSE [val |-> IF neg THEN Neg64(un.val) ELSE un.val, err |-> "nil"]


(***************************************************************************)
(* time                                                                    *)
(***************************************************************************)
\* Seconds from Jan 1, year 1 to the Unix epoch (time.unixToInternal):
\* (1969*365 + 1969/4 - 1969/100 + 1969/400) * secondsPerDay.
unixToInternal ==
    MulAdd64(MulAdd64(FromNat(1969*365 + 1969 \div 4 - 1969 \div 100
                              + 1969 \div 400), 24, 0), 3600, 0)

\* time.Time{}: the zero Time.
ZeroTime == [wall |-> 0, ext |-> Zero64, loc |-> "nil"]

\* time.Unix(sec, 0): the seconds are shifted to the internal epoch with a
\* wrapping addition.
Unix(sec) == [wall |-> 0, ext |-> Add64(sec, unixToInternal), loc |-> "Local"]

\* Time.IsZero: the instant is Jan 1, year 1, 00:00:00 UTC, whatever loc is.
IsZero(t) == t.ext = Zero64 /\ t.wall = 0

\* Time.Unix: back to seconds since the Unix epoch, wrapping again.
UnixOf(t) == Add64(t.ext, Neg64(unixToInternal))

(***************************************************************************)
(* InMemoryTimestampStore                                                  *)
(***************************************************************************)
\* NewInMemoryTimestampStore: the value the atomic.Value starts with.
NewInMemoryTimestampStore == ZeroTime

\* GetTimestamp on a store whose atomic.Value holds t.
GetTimestamp(t) == IF IsZero(t) THEN Zero64 ELSE UnixOf(t)

\* StoreTimestamp(timestamp): the value it puts in the atomic.Value.
StoreTimestamp(timestamp) == Unix(timestamp)

(***************************************************************************)
(* http.ResponseWriter                                                     *)
(***************************************************************************)
notFoundMessage == "404 - Page not found"

contentTypeTextPlain == <<"text/plain">>

\* What http.Error sets as Content-Type.
contentTypeError == <<"text/plain", "; charset=utf-8">>

\* What http.Redirect sets as Content-Type for GET and HEAD.
contentTypeHtml == <<"text/html", "; charset=utf-8">>

StatusOK == 200

StatusAccepted == 202

StatusBadRequest == 400

StatusNotFound == 404

\* A response nothing was written to: no Content-Type, no status yet (0).
NewResponse == [ctype |-> <<>>, code |-> 0, body |-> <<>>]

SetContentType(w, ct) == IF w.code = 0 THEN [w EXCEPT !.ctype = ct] ELSE w

\* WriteHeader: the first status written is the one sent.
WriteHeader(w, code) == IF w.code = 0 THEN [w EXCEPT !.code = code] ELSE w

\* Write: an implicit WriteHeader(200) when no status was written.
Write(w, text) == [WriteHeader(w, StatusOK) EXCEPT !.body = @ \o text]

\* The response as sent when the handler returns.
Finish(w) == WriteHeader(w, StatusOK)

\* http.Error(w, msg, code).
Error(w, msg, code) ==
    Write(WriteHeader(SetContentType(w, contentTypeError), code), <<msg, "\n">>)

(***************************************************************************)
(* TimestampServer: the handlers.  Each yields the response w, the value   *)
(* the store holds afterwards and the StoreTimestamp calls it made.        *)
(***************************************************************************)
getTimestamp(store, r) ==
    LET w1        == SetContentType(NewResponse, contentTypeTextPlain)
        timestamp == GetTimestamp(store)
        w2        == IF timestamp = Zero64 THEN WriteHeader(w1, StatusNotFound)
                     ELSE w1
    IN  [w |-> Finish(Write(w2, FormatInt(timestamp))),
         store |-> store, calls |-> <<>>]

\* storeTimestamp with the parse error looked at only after the store call.
storeTimestampStoresFirst(store, r) ==
    IF r.hasBody /\ ~r.readErr
    THEN LET p == ParseInt(r.body, IntSize)
         IN  [w |-> IF p.err # "nil"
                    THEN Finish(Error(NewResponse, "Invalid request body",
                                      StatusBadRequest))
                    ELSE Finish(WriteHeader(NewResponse, StatusAccepted)),
              store |-> StoreTimestamp(p.val), calls |-> <<p.val>>]
    ELSE IF r.hasBody
    THEN [w |-> Finish(Error(NewResponse, "Invalid request body", StatusBadRequest)),
          store |-> store, calls |-> <<>>]
    ELSE [w |-> Finish(NewResponse), store |-> store, calls |-> <<>>]

\* storeTimestamp without the r.Body != nil test: a missing body is read as
\* an empty one.
storeTimestampNoNilTest(store, r) ==
    IF r.readErr
    THEN [w |-> Finish(Error(NewResponse, "Invalid request body", StatusBadRequest)),
          store |-> store, calls |-> <<>>]
    ELSE LET p == ParseInt(r.body, IntSize)
         IN  IF p.err # "nil"
             THEN [w |-> Finish(Error(NewResponse, "Invalid request body",
                                      StatusBadRequest)),
                   store |-> store, calls |-> <<>>]
             ELSE [w |-> Finish(WriteHeader(NewResponse, StatusAccepted)),
                   store |-> StoreTimestamp(p.val), calls |-> <<p.val>>]

storeTimestamp(store, r) ==
    IF r.hasBody
    THEN IF r.readErr
         THEN [w |-> Finish(Error(NewResponse, "Invalid request body", StatusBadRequest)),
               store |-> store, calls |-> <<>>]
         ELSE LET p == ParseInt(r.body, IntSize)
              IN  IF p.err # "nil"
                  THEN [w |-> Finish(Error(NewResponse, "Invalid request body",
                                           StatusBadRequest)),
                        store |-> store, calls |-> <<>>]
                  ELSE [w |-> Finish(WriteHeader(NewResponse, StatusAccepted)),
                        store |-> StoreTimestamp(p.val), calls |-> <<p.val>>]
    ELSE [w |-> Finish(NewResponse), store |-> store, calls |-> <<>>]

notFoundHandler(store, r) ==
    LET w1 == SetContentType(NewResponse, contentTypeTextPlain)
        w2 == WriteHeader(w1, StatusNotFound)
    IN  [w |-> Finish(Write(w2, <<notFoundMessage>>)),
         store |-> store, calls |-> <<>>]

(***************************************************************************)
(* http.ServeMux with the three patterns NewTimestampServer registers.     *)
(* A path is the sequence of its segments: "/timestamp" is <<"timestamp">>,*)
(* "/" is <<"">>, "/timestamp/" is <<"timestamp", "">> and "//timestamp"   *)
(* is <<"", "timestamp">>.                                                 *)
(***************************************************************************)
PathTimestamp == <<"timestamp">>

RECURSIVE CleanFrom(_, _, _)
CleanFrom(p, i, acc) ==
    IF i > Len(p) THEN acc
    ELSE IF p[i] = "" \/ p[i] = "." THEN CleanFrom(p, i + 1, acc)
    ELSE IF p[i] = ".."
         THEN CleanFrom(p, i + 1,
                        IF acc = <<>> THEN acc ELSE SubSeq(acc, 1, Len(acc) - 1))
    ELSE CleanFrom(p, i + 1, Append(acc, p[i]))

\* net/http cleanPath: path.Clean, with the trailing slash put back.
cleanPath(p) ==
    LET np == CleanFrom(p, 1, <<>>)
    IN  IF np = <<>> THEN <<"">>
        ELSE IF p[Len(p)] = "" THEN Append(np, "") ELSE np

RECURSIVE PathText(_)
PathText(p) == IF p = <<>> THEN <<>> ELSE <<"/", Head(p)>> \o PathText(Tail(p))

\* Whether a registered pattern matches: "GET /timestamp" (GET matches HEAD
\* too), "POST /timestamp", and "/" for every method and path.
MatchesGet(method, path) == method \in {"GET", "HEAD"} /\ path = PathTimestamp

MatchesPost(method, path) == method = "POST" /\ path = PathTimestamp

\* findHandler had the read handler been registered as "/timestamp", with
\* no method.
findHandlerNoMethod(r) ==
    IF r.method # "CONNECT" /\ cleanPath(r.path) # r.path THEN "redirect"
    ELSE IF MatchesPost(r.method, r.path) THEN "storeTimestamp"
    ELSE IF r.path = PathTimestamp THEN "getTimestamp"
    ELSE "notFoundHandler"

\* ServeMux.findHandler: requests other than CONNECT with a path that is not
\* clean are redirected; otherwise the most specific matching pattern wins.
findHandler(r) ==
    IF r.method # "CONNECT" /\ cleanPath(r.path) # r.path THEN "redirect"
    ELSE IF MatchesGet(r.method, r.path) THEN "getTimestamp"
    ELSE IF MatchesPost(r.method, r.path) THEN "storeTimestamp"
    ELSE "notFoundHandler"

\* http.RedirectHandler(cleaned path, 301).
redirectHandler(store, r) ==
    LET w1 == IF r.method \in {"GET", "HEAD"}
              THEN SetContentType(NewResponse, contentTypeHtml) ELSE NewResponse
        w2 == WriteHeader(w1, 301)
        w3 == IF r.method = "GET"
              THEN Write(w2, <<"<a href=\"">> \o PathText(cleanPath(r.path))
                             \o <<"\">Moved Permanently</a>.\n", "\n">>)
              ELSE w2
    IN  [w |-> Finish(w3), store |-> store, calls |-> <<>>]

(***************************************************************************)
(* Inputs                                                                  *)
(***************************************************************************)
\* The most requests the service handles in a run of the model.
MaxRequests == 3

MaxInt64 == Add64(Bit64(63), MaxUint64)

MinInt64 == Bit64(63)

\* Timestamps posted: an ordinary one, 0, the extreme int64 values and the
\* Unix time of January 1 of year 1.
PostedTimes ==
    {FromNat(1700000000), Zero64, MaxInt64, MinInt64, Neg64(unixToInternal)}

\* Bodies of POST /timestamp: decimal texts, and texts ParseInt rejects
\* (empty, not a number, one past the largest int64).
PostBodies ==
    {FormatInt(v) : v \in PostedTimes}
        \cup {<<>>, <<"a", "b", "c">>, FormatUint(Bit64(63))}

\* What time.Now().Unix() gives when main starts the client.
ClientTimes == {FromNat(1700000001), FromNat(1700000002)}

\* Methods and paths of the requests that carry no body.
BodilessTargets ==
    {<<"GET", PathTimestamp>>, <<"HEAD", PathTimestamp>>,
     <<"PUT", PathTimestamp>>, <<"POST", PathTimestamp>>,
     <<"GET", <<"nonexistent">>>>, <<"POST", <<"nonexistent">>>>,
     <<"GET", <<"", "timestamp">>>>, <<"POST", <<"", "timestamp">>>>}

Requests ==
    {[method |-> "POST", path |-> PathTimestamp, hasBody |-> TRUE,
      body |-> b, readErr |-> FALSE] : b \in PostBodies}
    \cup {[method |-> "POST", path |-> PathTimestamp, hasBody |-> TRUE,
           body |-> <<>>, readErr |-> TRUE]}
    \cup {[method |-> t[1], path |-> t[2], hasBody |-> FALSE,
           body |-> <<>>, readErr |-> FALSE] : t \in BodilessTargets}

(***************************************************************************)
(* State                                                                   *)
(***************************************************************************)
VARIABLES
    timestamp,        \* the time.Time in the store's atomic.Value
    listener,         \* main's HTTP goroutine: "starting", "serving", "failed"
    wg,               \* main's WaitGroup counter
    clientPc,         \* Client.Run: "start", "stored", "loaded", "done"
    clientTs,         \* the argument of Client.Run
    storedTimestamp,  \* Client.Run's local variable
    out,              \* the lines written to the client's io.Writer
    nreq,             \* requests handled so far
    resp,             \* <<>> or the response of the last request handled
    lastSet,          \* <<>> or the last StoreTimestamp call: who and what
    posted,           \* the timestamps accepted POSTs have stored
    clientCalls,      \* the StoreTimestamp calls the client made
    clientSaw         \* lastSet as it was when the client read the store

vars == <<timestamp, listener, wg, clientPc, clientTs, storedTimestamp, out,
          nreq, resp, lastSet, posted, clientCalls, clientSaw>>

clientVars == <<clientPc, clientTs, storedTimestamp, out, clientCalls, clientSaw>>

serverVars == <<nreq, resp, posted>>

\* main up to wg.Wait(): the store and the server are built, both
\* goroutines are added to the WaitGroup and none has run.
Init ==
    /\ timestamp = NewInMemoryTimestampStore
    /\ listener = "starting"
    /\ wg = 2
    /\ clientPc = "start"
    /\ clientTs \in ClientTimes
    /\ storedTimestamp = Zero64
    /\ out = <<>>
    /\ nreq = 0
    /\ resp = <<>>
    /\ lastSet = <<>>
    /\ posted = {}
    /\ clientCalls = <<>>
    /\ clientSaw = <<>>

\* log.Fatalf has ended the process: nothing runs any more.
Halted == listener = "failed"

(***************************************************************************)
(* main's HTTP goroutine                                                   *)
(***************************************************************************)
\* http.ListenAndServe has bound the port and serves.
ListenOk ==
    /\ listener = "starting"
    /\ listener' = "serving"
    /\ UNCHANGED <<timestamp, wg, clientVars, serverVars, lastSet>>

\* http.ListenAndServe returns an error: log.Fatalf ends the process.
ListenFail ==
    /\ listener = "starting"
    /\ listener' = "failed"
    /\ UNCHANGED <<timestamp, wg, clientVars, serverVars, lastSet>>

(***************************************************************************)
(* Client.Run, in main's second goroutine                                  *)
(***************************************************************************)
\* c.store.StoreTimestamp(timestamp)
ClientStore ==
    /\ ~Halted
    /\ clientPc = "start"
    /\ timestamp' = StoreTimestamp(clientTs)
    /\ lastSet' = <<[by |-> "client", val |-> clientTs]>>
    /\ clientCalls' = Append(clientCalls, clientTs)
    /\ clientPc' = "stored"
    /\ UNCHANGED <<listener, wg, clientTs, storedTimestamp, out, serverVars,
                   clientSaw>>

\* storedTimestamp := c.store.GetTimestamp()
ClientLoad ==
    /\ ~Halted
    /\ clientPc = "stored"
    /\ storedTimestamp' = GetTimestamp(timestamp)
    /\ clientSaw' = lastSet
    /\ clientPc' = "loaded"
    /\ UNCHANGED <<timestamp, listener, wg, clientTs, out, serverVars, lastSet,
                   clientCalls>>

\* ClientPrint printing the argument of Run instead of what was read back.
ClientPrintArgument ==
    /\ ~Halted
    /\ clientPc = "loaded"
    /\ out' = Append(out, FormatInt(clientTs) \o <<"\n">>)
    /\ clientPc' = "done"
    /\ wg' = wg - 1
    /\ UNCHANGED <<timestamp, listener, clientTs, storedTimestamp, serverVars,
                   lastSet, clientCalls, clientSaw>>

\* ClientPrint with wg.Done() called a second time.
ClientPrintDoneTwice ==
    /\ ~Halted
    /\ clientPc = "loaded"
    /\ out' = Append(out, FormatInt(storedTimestamp) \o <<"\n">>)
    /\ clientPc' = "done"
    /\ wg' = wg - 2
    /\ UNCHANGED <<timestamp, listener, clientTs, storedTimestamp, serverVars,
                   lastSet, clientCalls, clientSaw>>

\* fmt.Fprintln(c.out, strconv.FormatInt(storedTimestamp, 10)), then the
\* goroutine's deferred wg.Done().
ClientPrint ==
    /\ ~Halted
    /\ clientPc = "loaded"
    /\ out' = Append(out, FormatInt(storedTimestamp) \o <<"\n">>)
    /\ clientPc' = "done"
    /\ wg' = wg - 1
    /\ UNCHANGED <<timestamp, listener, clientTs, storedTimestamp, serverVars,
                   lastSet, clientCalls, clientSaw>>

(***************************************************************************)
(* Requests.  The server runs one handler goroutine per request.  A        *)
(* handler touches the store in at most one atomic step (one Load or one   *)
(* Store of the atomic.Value) and shares nothing else, so a handler is one *)
(* step, taken at its store access: handlers running at once are these    *)
(* steps in any order, between and around the client's two store accesses. *)
(***************************************************************************)
\* The handler for request r runs with outcome h: the store takes the value
\* h leaves in it and the response is recorded with what the handler saw.
Respond(r, h) ==
    /\ timestamp' = h.store
    /\ resp' = <<[req     |-> r,
                  status  |-> h.w.code,
                  ctype   |-> h.w.ctype,
                  body    |-> h.w.body,
                  calls   |-> h.calls,
                  changed |-> h.store # timestamp,
                  seen    |-> lastSet,
                  after   |-> clientPc = "done"]>>
    /\ lastSet' = IF h.calls = <<>> THEN lastSet
                  ELSE <<[by |-> "post", val |-> h.calls[Len(h.calls)]]>>
    /\ posted' = posted \cup {h.calls[i] : i \in 1..Len(h.calls)}
    /\ nreq' = nreq + 1
    /\ UNCHANGED <<listener, wg, clientVars>>

\* The mux hands request r to the named handler.
Routed(r, handler) ==
    /\ listener = "serving"
    /\ nreq < MaxRequests
    /\ findHandler(r) = handler

ServeGet(r) ==
    /\ Routed(r, "getTimestamp")
    /\ Respond(r, getTimestamp(timestamp, r))

ServeStore(r) ==
    /\ Routed(r, "storeTimestamp")
    /\ Respond(r, storeTimestamp(timestamp, r))

ServeNotFound(r) ==
    /\ Routed(r, "notFoundHandler")
    /\ Respond(r, notFoundHandler(timestamp, r))

ServeRedirect(r) ==
    /\ Routed(r, "redirect")
    /\ Respond(r, redirectHandler(timestamp, r))

Next ==
    \/ ListenOk
    \/ ListenFail
    \/ ClientStore
    \/ ClientLoad
    \/ ClientPrint
    \/ \E r \in Requests : ServeGet(r)
    \/ \E r \in Requests : ServeStore(r)
    \/ \E r \in Requests : ServeNotFound(r)
    \/ \E r \in Requests : ServeRedirect(r)

Spec == Init /\ [][Next]_vars

\* Go schedules every runnable goroutine: the client's steps and the
\* listener's start are taken when they can be.
FairSpec ==
    /\ Spec
    /\ WF_vars(ClientStore)
    /\ WF_vars(ClientLoad)
    /\ WF_vars(ClientPrint)
    /\ WF_vars(ListenOk \/ ListenFail)

(***************************************************************************)
(* Vocabulary of the properties                                            *)
(***************************************************************************)
HasResp == resp # <<>>

Resp == resp[1]

IsGetTimestamp(r) == r.method = "GET" /\ r.path = PathTimestamp

IsPostTimestamp(r) == r.method = "POST" /\ r.path = PathTimestamp

\* strings.Contains(contentType, "text/plain")
ContainsTextPlain(ct) == \E i \in 1..Len(ct) : ct[i] = "text/plain"

InvalidBodyText == <<"Invalid request body", "\n">>

RECURSIVE StripZeros(_)
StripZeros(d) ==
    IF Len(d) > 1 /\ Head(d) = "0" THEN StripZeros(Tail(d)) ELSE d

RECURSIVE DigitsLeq(_, _)
DigitsLeq(a, b) ==
    IF a = <<>> THEN TRUE
    ELSE IF Head(a) # Head(b) THEN DigitVal(Head(a)) < DigitVal(Head(b))
    ELSE DigitsLeq(Tail(a), Tail(b))

MaxInt64Text ==
    <<"9", "2", "2", "3", "3", "7", "2", "0", "3", "6", "8", "5", "4", "7",
      "7", "5", "8", "0", "7">>

MinInt64Magnitude ==
    <<"9", "2", "2", "3", "3", "7", "2", "0", "3", "6", "8", "5", "4", "7",
      "7", "5", "8", "0", "8">>

\* Whether text s is a base-10 signed integer in the int64 range: an
\* optional sign, then digits only, at least one, whose value fits.  Stated
\* on the digits, without ParseInt.
IsDecimalInt64(s) ==
    /\ s # <<>>
    /\ LET signed == s[1] \in {"+", "-"}
           digits == IF signed THEN Tail(s) ELSE s
           limit  == IF s[1] = "-" THEN MinInt64Magnitude ELSE MaxInt64Text
           d      == StripZeros(digits)
       IN  /\ digits # <<>>
           /\ \A i \in 1..Len(digits) : IsDigit(digits[i])
           /\ \/ Len(d) < Len(limit)
              \/ Len(d) = Len(limit) /\ DigitsLeq(d, limit)

\* Whether path p is clean, so that the mux does not redirect it: no empty,
\* "." or ".." segment, but for the empty one a trailing slash leaves.
IsCleanPath(p) ==
    \A i \in 1..Len(p) : p[i] \notin {".", ".."} /\ (p[i] = "" => i = Len(p))

\* The answer of notFoundHandler, and no effect on the store.
IsNotFoundResponse(rs) ==
    /\ rs.status = StatusNotFound
    /\ rs.body = <<notFoundMessage>>
    /\ ContainsTextPlain(rs.ctype)
    /\ rs.calls = <<>>
    /\ ~rs.changed

\* The step is one in which StoreTimestamp is called.
SetStep ==
    \/ clientCalls' # clientCalls
    \/ nreq' # nreq /\ resp'[1].calls # <<>> /\ IsPostTimestamp(resp'[1].req)
                    /\ resp'[1].status = StatusAccepted

\* The step answers a GET /timestamp, the request answered before was one
\* too, and no set happened since.
GetAfterGet ==
    /\ nreq' # nreq /\ IsGetTimestamp(resp'[1].req)
    /\ HasResp /\ IsGetTimestamp(Resp.req)
    /\ Resp.seen = lastSet

(***************************************************************************)
(* C1.  Round trip: a GET /timestamp whose read of the store follows an    *)
(* accepted POST of the decimal text of v, with no other write in between, *)
(* returns exactly the decimal text of v.                                  *)
(***************************************************************************)
C1_RoundTrip ==
    (HasResp /\ IsGetTimestamp(Resp.req) /\ Resp.seen # <<>>
        /\ Resp.seen[1].by = "post")
    => Resp.body = FormatInt(Resp.seen[1].val)

(***************************************************************************)
(* C2.  After accepted POSTs of distinct timestamps, handled in any order, *)
(* a GET /timestamp that reads the store after them returns the decimal    *)
(* text of one of the posted timestamps.                                   *)
(***************************************************************************)
C2_GetReturnsAPostedValue ==
    (HasResp /\ IsGetTimestamp(Resp.req) /\ Cardinality(posted) >= 2
        /\ Resp.seen # <<>> /\ Resp.seen[1].by = "post")
    => Resp.body \in {FormatInt(v) : v \in posted}

(***************************************************************************)
(* C3.  A POST /timestamp whose body is present but is not a base-10       *)
(* signed integer in the int64 range is answered 400 with the message      *)
(* "Invalid request body", calls no StoreTimestamp and leaves the store    *)
(* holding what it held.                                                   *)
(***************************************************************************)
C3_MalformedPostRejected ==
    (HasResp /\ IsPostTimestamp(Resp.req) /\ Resp.req.hasBody
        /\ ~IsDecimalInt64(Resp.req.body))
    => /\ Resp.status = StatusBadRequest
       /\ Resp.body = InvalidBodyText
       /\ Resp.calls = <<>>
       /\ ~Resp.changed

\* A malformed body was rejected while the store held a posted timestamp,
\* which it still holds.
C3_Witness ==
    /\ HasResp /\ IsPostTimestamp(Resp.req) /\ Resp.req.hasBody
    /\ Resp.req.body = FormatUint(Bit64(63))
    /\ Resp.status = StatusBadRequest
    /\ Resp.seen # <<>> /\ Resp.seen[1].by = "post"
    /\ timestamp = StoreTimestamp(Resp.seen[1].val)

(***************************************************************************)
(* C4.  GET /timestamp answers 404 with body "0" when nothing has been     *)
(* written to the store, and 200 when its read follows an accepted POST.   *)
(***************************************************************************)
C4_GetStatus ==
    (HasResp /\ IsGetTimestamp(Resp.req))
    => /\ Resp.seen = <<>> => Resp.status = StatusNotFound /\ Resp.body = <<"0">>
       /\ (Resp.seen # <<>> /\ Resp.seen[1].by = "post")
              => Resp.status = StatusOK

(***************************************************************************)
(* C5.  Every response carries a Content-Type containing text/plain.       *)
(***************************************************************************)
C5_ContentTypeTextPlain == HasResp => ContainsTextPlain(Resp.ctype)

(***************************************************************************)
(* C6.  As claimed: every request that is neither GET /timestamp nor       *)
(* POST /timestamp is answered 404 with the body "404 - Page not found"    *)
(* and content type text/plain, and leaves the store unchanged.            *)
(***************************************************************************)
C6_EveryOtherRequestNotFound ==
    (HasResp /\ ~IsGetTimestamp(Resp.req) /\ ~IsPostTimestamp(Resp.req))
    => IsNotFoundResponse(Resp)

(***************************************************************************)
(* C6, amended.  Every request with a clean path that is not GET, HEAD or  *)
(* POST on /timestamp is answered 404 with the body "404 - Page not found" *)
(* and content type text/plain, and leaves the store unchanged.            *)
(***************************************************************************)
C6_UnroutedNotFound ==
    (HasResp /\ IsCleanPath(Resp.req.path)
        /\ ~(Resp.req.path = PathTimestamp
             /\ Resp.req.method \in {"GET", "HEAD", "POST"}))
    => IsNotFoundResponse(Resp)

\* PUT /timestamp was answered "404 - Page not found" with the store set.
C6_Witness ==
    /\ HasResp /\ Resp.req.method = "PUT" /\ Resp.req.path = PathTimestamp
    /\ IsNotFoundResponse(Resp)
    /\ ~IsZero(timestamp)

(***************************************************************************)
(* C7.  As claimed: Client.Run(ts) calls StoreTimestamp once, with ts, and *)
(* the line it prints is the decimal text of ts, also while POST handlers  *)
(* write to the store.                                                     *)
(***************************************************************************)
C7_ClientPrintsItsOwn ==
    clientPc = "done"
    => /\ clientCalls = <<clientTs>>
       /\ out = <<FormatInt(clientTs) \o <<"\n">>>>

(***************************************************************************)
(* C7, amended.  Client.Run(ts) calls StoreTimestamp once, with ts, and    *)
(* then prints one line: the decimal text of what GetTimestamp returned    *)
(* to it, which is what the store reports for the timestamp last stored    *)
(* before the client's read, the client's own or a POST handler's.         *)
(***************************************************************************)
C7_ClientPrintsWhatItRead ==
    /\ clientCalls = IF clientPc = "start" THEN <<>> ELSE <<clientTs>>
    /\ clientPc \in {"loaded", "done"}
          => /\ clientSaw # <<>>
             /\ storedTimestamp = GetTimestamp(StoreTimestamp(clientSaw[1].val))
    /\ out = IF clientPc = "done"
             THEN <<FormatInt(storedTimestamp) \o <<"\n">>>> ELSE <<>>

\* The client has printed a timestamp a POST handler stored between the
\* client's StoreTimestamp and its GetTimestamp.
C7_Witness ==
    /\ clientPc = "done"
    /\ clientSaw[1].by = "post"
    /\ out = <<FormatInt(clientSaw[1].val) \o <<"\n">>>>
    /\ clientSaw[1].val # clientTs

C9_StoreChangesOnlyBySet ==
    [][/\ timestamp' # timestamp => SetStep
       /\ GetAfterGet => /\ resp'[1].status = Resp.status
                         /\ resp'[1].body = Resp.body
       /\ lastSet' # <<>> => ~IsZero(timestamp')]_vars

(***************************************************************************)
(* C9, the part that holds: the store's value and the record of the last   *)
(* set change only in a step that calls StoreTimestamp, and two GETs with  *)
(* no set between them are answered alike.                                 *)
(***************************************************************************)
C9_FrameOnly ==
    [][/\ timestamp' # timestamp => SetStep
       /\ lastSet' # lastSet => SetStep
       /\ GetAfterGet => /\ resp'[1].status = Resp.status
                         /\ resp'[1].body = Resp.body]_vars

(***************************************************************************)
(* C10.  As claimed: in every execution of main the client prints at most  *)
(* one line and, under fair scheduling, does print it and is then          *)
(* finished; the process does not exit when the client finishes and a      *)
(* serving listener keeps serving.                                         *)
(***************************************************************************)
C10_ClientAlwaysPrints ==
    /\ [](Len(out) <= 1 /\ wg >= 1)
    /\ [][/\ clientPc = "done" => UNCHANGED clientVars
          /\ listener = "serving" => listener' = "serving"]_vars
    /\ <>(clientPc = "done" /\ Len(out) = 1)

(***************************************************************************)
(* C10, amended.  The client stores and prints at most once and is then    *)
(* finished for good; main never gets past wg.Wait(), a serving listener   *)
(* keeps serving, and the process halts only by the listener's failure to  *)
(* bind; under fair scheduling the line is eventually printed unless the   *)
(* process has halted by then, which a failure to bind before the client   *)
(* has printed brings about.                                               *)
(***************************************************************************)
C10_Lifecycle ==
    /\ [](/\ Len(out) <= 1
          /\ Len(clientCalls) <= 1
          /\ Len(out) = 1 <=> clientPc = "done"
          /\ wg >= 1)
    /\ [][/\ clientPc = "done" => UNCHANGED clientVars
          /\ listener = "serving" => listener' = "serving"
          /\ Halted' => Halted \/ listener = "starting"]_vars
    /\ <>(clientPc = "done" \/ Halted)

\* The client has finished and the service has answered a request after that.
C10_Witness ==
    /\ clientPc = "done" /\ Len(out) = 1
    /\ listener = "serving"
    /\ HasResp /\ Resp.after

=============================================================================
